---- MODULE Spec2Model ----
(***************************************************************************)
(* Bill splitter (core.ts: splitBill and its helpers) and the command-line *)
(* processors that call it (processor.ts and its later version).           *)
(*                                                                         *)
(* Every amount of the program is a JavaScript Number, i.e. an IEEE 754    *)
(* binary64 value.  The model keeps that arithmetic: a Number is a record  *)
(* [s, m, e] standing for (-1)^s * m * 2^e with a 53-bit significand m,    *)
(* held as a little-endian sequence of base-2^14 limbs, and every          *)
(* operation rounds its exact result to nearest, ties to even.             *)
(***************************************************************************)
EXTENDS Integers, Sequences, FiniteSets, TLC

(***************************************************************************)
(* Natural numbers of arbitrary size (significands and exact products).    *)
(***************************************************************************)
LimbBits == 14
Base == 16384

RECURSIVE Pow2(_)
Pow2(n) == IF n = 0 THEN 1 ELSE 2 * Pow2(n - 1)

RECURSIVE BTrim(_)
BTrim(a) ==
    IF a = <<>> THEN <<>>
    ELSE IF a[Len(a)] = 0 THEN BTrim(SubSeq(a, 1, Len(a) - 1))
    ELSE a

RECURSIVE BFromInt(_)
BFromInt(n) == IF n = 0 THEN <<>> ELSE <<n % Base>> \o BFromInt(n \div Base)

RECURSIVE BToInt(_)
BToInt(a) == IF a = <<>> THEN 0 ELSE a[1] + Base * BToInt(Tail(a))

Limb(a, i) == IF i <= Len(a) THEN a[i] ELSE 0

RECURSIVE BAddC(_, _, _, _)
BAddC(a, b, i, c) ==
    IF i > Len(a) /\ i > Len(b)
    THEN IF c = 0 THEN <<>> ELSE <<c>>
    ELSE LET t == Limb(a, i) + Limb(b, i) + c
         IN  <<t % Base>> \o BAddC(a, b, i + 1, t \div Base)

BAdd(a, b) == BTrim(BAddC(a, b, 1, 0))

\* a - b for a >= b
RECURSIVE BSubC(_, _, _, _)
BSubC(a, b, i, c) ==
    IF i > Len(a) THEN <<>>
    ELSE LET t == Limb(a, i) - Limb(b, i) - c
         IN  IF t < 0 THEN <<t + Base>> \o BSubC(a, b, i + 1, 1)
                      ELSE <<t>> \o BSubC(a, b, i + 1, 0)

BSub(a, b) == BTrim(BSubC(a, b, 1, 0))

\* -1, 0, 1 as a < b, a = b, a > b (both trimmed)
RECURSIVE BCmpAt(_, _, _)
BCmpAt(a, b, i) ==
    IF i = 0 THEN 0
    ELSE IF a[i] < b[i] THEN -1
    ELSE IF a[i] > b[i] THEN 1
    ELSE BCmpAt(a, b, i - 1)

BCmp(a, b) ==
    IF Len(a) < Len(b) THEN -1
    ELSE IF Len(a) > Len(b) THEN 1
    ELSE BCmpAt(a, b, Len(a))

\* a * k for 0 <= k < 2^16
RECURSIVE BMulSmallC(_, _, _, _)
BMulSmallC(a, k, i, c) ==
    IF i > Len(a)
    THEN IF c = 0 THEN <<>> ELSE <<c % Base>> \o BMulSmallC(a, k, i, c \div Base)
    ELSE LET t == a[i] * k + c
         IN  <<t % Base>> \o BMulSmallC(a, k, i + 1, t \div Base)

BMulSmall(a, k) == BTrim(BMulSmallC(a, k, 1, 0))

RECURSIVE BZeros(_)
BZeros(n) == IF n = 0 THEN <<>> ELSE <<0>> \o BZeros(n - 1)

RECURSIVE BMulAt(_, _, _)
BMulAt(a, b, i) ==
    IF i > Len(b) THEN <<>>
    ELSE BAdd(BTrim(BZeros(i - 1) \o BMulSmall(a, b[i])), BMulAt(a, b, i + 1))

BMul(a, b) == BMulAt(a, b, 1)

\* quotient and remainder of a by a small d (0 < d < 2^16), from the top limb
RECURSIVE BDivSmallAt(_, _, _, _)
BDivSmallAt(a, d, i, r) ==
    IF i = 0 THEN [q |-> <<>>, r |-> r]
    ELSE LET t    == r * Base + a[i]
             rest == BDivSmallAt(a, d, i - 1, t % d)
         IN  [q |-> rest.q \o <<t \div d>>, r |-> rest.r]

BDivSmall(a, d) ==
    LET x == BDivSmallAt(a, d, Len(a), 0) IN [q |-> BTrim(x.q), r |-> x.r]

BShl(a, n) ==
    IF a = <<>> THEN <<>>
    ELSE BZeros(n \div LimbBits) \o BMulSmall(a, Pow2(n % LimbBits))

BShr(a, n) ==
    LET k == n \div LimbBits
    IN  IF k >= Len(a) THEN <<>>
        ELSE BDivSmall(SubSeq(a, k + 1, Len(a)), Pow2(n % LimbBits)).q

RECURSIVE IntBitLen(_)
IntBitLen(n) == IF n = 0 THEN 0 ELSE 1 + IntBitLen(n \div 2)

BBitLen(a) ==
    IF a = <<>> THEN 0 ELSE LimbBits * (Len(a) - 1) + IntBitLen(a[Len(a)])

BOdd(a) == a # <<>> /\ a[1] % 2 = 1

(***************************************************************************)
(* JavaScript Numbers (IEEE 754 binary64), rounding to nearest, ties to    *)
(* even.  Zero is kept as +0 (the program never distinguishes -0).         *)
(***************************************************************************)
MantBits == 53

Zero == [s |-> 0, m |-> <<>>, e |-> 0]

\* the Number nearest to (-1)^s * (N / d) * 2^e, for a small divisor d > 0:
\* N is shifted left until the quotient has spare bits, divided, and the
\* quotient is cut to MantBits bits, rounding to nearest, ties to even
RoundUp(mant, low, half, r) ==
    BCmp(low, half) > 0 \/ (BCmp(low, half) = 0 /\ (r # 0 \/ BOdd(mant)))

Renormal(s, m1, e) ==
    IF BBitLen(m1) > MantBits
    THEN [s |-> s, m |-> BShr(m1, 1), e |-> e + 1]
    ELSE [s |-> s, m |-> m1, e |-> e]

RoundMant(s, q, r, mant, drop, e) ==
    Renormal(s,
             IF RoundUp(mant, BSub(q, BShl(mant, drop)), BShl(<<1>>, drop - 1), r)
             THEN BAdd(mant, <<1>>) ELSE mant,
             e + drop)

RoundCut(s, q, r, drop, e) == RoundMant(s, q, r, BShr(q, drop), drop, e)

RoundQuot(s, dv, e) == RoundCut(s, dv.q, dv.r, BBitLen(dv.q) - MantBits, e)

RoundShift(s, N, d, sh, e) == RoundQuot(s, BDivSmall(BShl(N, sh), d), e - sh)

SpareShift(len, want) == IF len >= want THEN 0 ELSE want - len

NumRound(s, N, d, e) ==
    IF N = <<>> THEN Zero
    ELSE RoundShift(s, N, d, SpareShift(BBitLen(N), MantBits + 3 + IntBitLen(d)), e)

MinInt(a, b) == IF a < b THEN a ELSE b

\* a numeric literal n/d of the input (a decimal such as 12.34 = 1234/100)
NumLit(n, d) ==
    IF n < 0 THEN NumRound(1, BFromInt(-n), d, 0) ELSE NumRound(0, BFromInt(n), d, 0)

\* -1, 0, 1 as x < y, x = y, x > y, from the significands aligned to the
\* smaller exponent
CmpAligned(sx, a, sy, b) ==
    IF sx = 0 /\ sy = 0 THEN BCmp(a, b)
    ELSE IF sx = 1 /\ sy = 1 THEN BCmp(b, a)
    ELSE IF a = <<>> /\ b = <<>> THEN 0
    ELSE IF sx = 1 THEN -1 ELSE 1

NumCmpAt(x, y, e) == CmpAligned(x.s, BShl(x.m, x.e - e), y.s, BShl(y.m, y.e - e))

NumCmp(x, y) == NumCmpAt(x, y, MinInt(x.e, y.e))

NumLt(x, y) == NumCmp(x, y) < 0

NumNeg(x) == IF x.m = <<>> THEN x ELSE [x EXCEPT !.s = 1 - x.s]

\* x + y: the exact sum of the aligned significands, rounded
AddAligned(sx, a, sy, b, e) ==
    IF sx = sy THEN NumRound(sx, BAdd(a, b), 1, e)
    ELSE IF BCmp(a, b) >= 0 THEN NumRound(sx, BSub(a, b), 1, e)
    ELSE NumRound(sy, BSub(b, a), 1, e)

NumAddAt(x, y, e) == AddAligned(x.s, BShl(x.m, x.e - e), y.s, BShl(y.m, y.e - e), e)

NumAdd(x, y) == NumAddAt(x, y, MinInt(x.e, y.e))

\* x - y
NumSub(x, y) == NumAdd(x, NumNeg(y))

\* x * y
NumMul(x, y) ==
    NumRound(IF x.s = y.s THEN 0 ELSE 1, BMul(x.m, y.m), 1, x.e + y.e)

\* x / n for an integer-valued Number n > 0 (the program divides only by
\* 10, by 100 and by the number of persons)
NumDivInt(x, n) == NumRound(x.s, x.m, n, x.e)

\* the integer part ip of |x| and how its fraction compares with one half
\* (c) and with zero (frac), for x = (-1)^s * m * 2^(-k), k > 0
RoundParts(s, ip, c) ==
    IF s = 0 THEN BToInt(ip) + (IF c >= 0 THEN 1 ELSE 0)
    ELSE -(BToInt(ip) + (IF c > 0 THEN 1 ELSE 0))

RoundSplit(s, m, k, ip) ==
    RoundParts(s, ip, BCmp(BSub(m, BShl(ip, k)), BShl(<<1>>, k - 1)))

\* Math.round(x) as an integer: the nearest integer, halves towards +Infinity
MathRound(x) ==
    IF x.e >= 0 THEN (IF x.s = 1 THEN -1 ELSE 1) * BToInt(BShl(x.m, x.e))
    ELSE RoundSplit(x.s, x.m, -x.e, BShr(x.m, -x.e))

FloorSplit(s, m, k, ip) ==
    IF s = 0 THEN BToInt(ip)
    ELSE -(BToInt(ip) + (IF BSub(m, BShl(ip, k)) # <<>> THEN 1 ELSE 0))

\* Math.floor(x) as an integer
MathFloor(x) ==
    IF x.e >= 0 THEN (IF x.s = 1 THEN -1 ELSE 1) * BToInt(BShl(x.m, x.e))
    ELSE FloorSplit(x.s, x.m, -x.e, BShr(x.m, -x.e))

Ten == NumLit(10, 1)

PointOne_Fifth == NumLit(2, 10)

\* core.ts 151-152 and 162-163: the literal 0.1
PointOne == NumLit(1, 10)

\* core.ts round1: Math.round(num * 10) / 10
round1(num) == NumLit(MathRound(NumMul(num, Ten)), 10)

\* core.ts floor1: Math.floor(num * 10) / 10
floor1(num) == NumLit(MathFloor(NumMul(num, Ten)), 10)

(***************************************************************************)
(* Bounds and input domains.  A price is written in the input as a decimal *)
(* with two places and is kept here in hundredths (15 is the literal       *)
(* 0.15); a tip percentage is a whole number of percent.                   *)
(***************************************************************************)
MaxItems == 3

SharedPrices == {95}
PersonalPrices == {0, 15, 124}
Tips == {0, 20, 25}
Names == {"a", "b"}

\* String.prototype.localeCompare on the names of the model: the names in
\* collation order
Collation == <<"", " ", "a", "b">>

BillItems ==
    [price : SharedPrices, isShared : {TRUE}, person : {""}]
        \cup [price : PersonalPrices, isShared : {FALSE}, person : Names]

RECURSIVE SeqsUpTo(_, _)
SeqsUpTo(S, n) ==
    IF n = 0 THEN {<<>>}
    ELSE LET shorter == SeqsUpTo(S, n - 1)
         IN  shorter \cup {Append(q, x) : q \in {r \in shorter : Len(r) = n - 1}, x \in S}

\* the bills the validators accept (core.ts BillInput, without date and
\* location, which no amount depends on)
BillInputs ==
    [tipPercentage : Tips, items : SeqsUpTo(BillItems, MaxItems) \ {<<>>}]

Price(item) == NumLit(item.price, 100)

(***************************************************************************)
(* core.ts: the aggregator                                                 *)
(***************************************************************************)
\* items.reduce((sum, item) => sum + item.price, 0)
RECURSIVE calculateSubTotal(_)
calculateSubTotal(items) ==
    IF items = <<>> THEN Zero
    ELSE NumAdd(calculateSubTotal(SubSeq(items, 1, Len(items) - 1)),
                Price(items[Len(items)]))

\* Math.round(subTotal * (tipPercentage / 100) * 10) / 10
calculateTip(subTotal, tipPercentage) ==
    NumLit(MathRound(NumMul(NumMul(subTotal,
                                   NumDivInt(NumLit(tipPercentage, 1), 100)),
                            Ten)),
           10)

\* the tip taken off the bill instead of added to it
TotalAmount_Floor(subTotal, tip) == floor1(NumAdd(subTotal, tip))

TotalAmount_Minus(subTotal, tip) == round1(NumSub(subTotal, tip))

\* core.ts 60: round1(subTotal + tip)
TotalAmount(subTotal, tip) == round1(NumAdd(subTotal, tip))

(***************************************************************************)
(* core.ts: the per-person allocator                                       *)
(***************************************************************************)
\* the distinct persons of the personal items, in order of first appearance
\* (insertion order of the Set)
RECURSIVE scanPersons(_)
scanPersons(items) ==
    IF items = <<>> THEN <<>>
    ELSE LET before == scanPersons(SubSeq(items, 1, Len(items) - 1))
             item   == items[Len(items)]
         IN  IF ~item.isShared /\ \A i \in DOMAIN before : before[i] # item.person
             THEN Append(before, item.person)
             ELSE before

\* personalTotal: the prices of the personal items of name, summed from 0
RECURSIVE PersonalTotal(_, _)
PersonalTotal(items, name) ==
    IF items = <<>> THEN Zero
    ELSE LET before == PersonalTotal(SubSeq(items, 1, Len(items) - 1), name)
             item   == items[Len(items)]
         IN  IF ~item.isShared /\ item.person = name
             THEN NumAdd(before, Price(item))
             ELSE before

\* sharedTotal: price / persons of the shared items, summed from 0
RECURSIVE SharedTotal(_, _)
SharedTotal(items, persons) ==
    IF items = <<>> THEN Zero
    ELSE LET before == SharedTotal(SubSeq(items, 1, Len(items) - 1), persons)
             item   == items[Len(items)]
         IN  IF item.isShared
             THEN NumAdd(before, NumDivInt(Price(item), persons))
             ELSE before

calculatePersonAmount(items, tipPercentage, name, persons) ==
    LET total == NumAdd(PersonalTotal(items, name), SharedTotal(items, persons))
        tip   == NumMul(total, NumDivInt(NumLit(tipPercentage, 1), 100))
    IN  NumAdd(total, tip)

calculateItems_Unrounded(items, tipPercentage) ==
    LET names   == scanPersons(items)
        persons == Len(names)
    IN  [i \in 1..persons |->
            [name   |-> names[i],
             amount |-> calculatePersonAmount(items, tipPercentage, names[i], persons)]]

\* core.ts 99-117
calculateItems(items, tipPercentage) ==
    LET names   == scanPersons(items)
        persons == Len(names)
    IN  [i \in 1..persons |->
            [name   |-> names[i],
             amount |-> round1(calculatePersonAmount(items, tipPercentage,
                                                     names[i], persons))]]

(***************************************************************************)
(* core.ts: the remainder reconciler                                       *)
(***************************************************************************)
NameRank(name) == CHOOSE i \in DOMAIN Collation : Collation[i] = name

Sign(n) == IF n < 0 THEN -1 ELSE IF n > 0 THEN 1 ELSE 0

localeCompare(a, b) == Sign(NameRank(a) - NameRank(b))

\* the three comparators handed to Array.prototype.sort
Compare(a, b, order) ==
    IF order = "name" THEN localeCompare(a.name, b.name)
    ELSE IF order = "ascending" THEN NumCmp(NumSub(a.amount, b.amount), Zero)
    ELSE NumCmp(NumSub(b.amount, a.amount), Zero)

\* Array.prototype.sort is stable: x goes after every element that does not
\* compare greater than x
RECURSIVE InsertSorted(_, _, _)
InsertSorted(sorted, x, order) ==
    IF sorted = <<>> THEN <<x>>
    ELSE IF Compare(sorted[Len(sorted)], x, order) <= 0 THEN Append(sorted, x)
    ELSE Append(InsertSorted(SubSeq(sorted, 1, Len(sorted) - 1), x, order),
                sorted[Len(sorted)])

RECURSIVE sort(_, _)
sort(list, order) ==
    IF list = <<>> THEN <<>>
    ELSE InsertSorted(sort(SubSeq(list, 1, Len(list) - 1), order),
                      list[Len(list)], order)

\* the sort by name left out: ties keep the order of the list
sortedItems_NoNameSort(items, order) == sort(items, order)

\* items.slice().sort(by name).sort(by amount)
sortedItems(items, order) == sort(sort(items, "name"), order)

\* items.forEach(item => (item.amount = floor1(item.amount)))
FloorAmounts(items) ==
    [i \in DOMAIN items |-> [items[i] EXCEPT !.amount = floor1(@)]]

\* items.reduce((acc, item) => acc + item.amount, 0)
RECURSIVE SumAmounts(_)
SumAmounts(items) ==
    IF items = <<>> THEN Zero
    ELSE NumAdd(SumAmounts(SubSeq(items, 1, Len(items) - 1)),
                items[Len(items)].amount)

\* the copy made deep: the increment is lost with the copy
PayMoreItems_DeepCopy(items) == items

\* items sorted in place (no slice): the returned list is the sorted one
PayMoreItems_InPlace(items) ==
    [i \in DOMAIN items |->
        IF i = 1
        THEN [sortedItems(items, "ascending")[1] EXCEPT
                 !.amount = round1(NumAdd(@, PointOne))]
        ELSE sortedItems(items, "ascending")[i]]

\* sortedItems[0].amount = round1(sortedItems[0].amount + 0.1): the copy
\* shares its objects with items, so the entry of that person changes
PayMoreItems(items) ==
    LET first == sortedItems(items, "ascending")[1]
    IN  [i \in DOMAIN items |->
            IF items[i].name = first.name
            THEN [items[i] EXCEPT !.amount = round1(NumAdd(@, PointOne))]
            ELSE items[i]]

\* the second loop sorted like the first: the smallest amount is lowered
PayLessItems_Smallest(items) ==
    LET first == sortedItems(items, "ascending")[1]
    IN  [i \in DOMAIN items |->
            IF items[i].name = first.name
            THEN [items[i] EXCEPT !.amount = round1(NumSub(@, PointOne))]
            ELSE items[i]]

\* sortedItems[0].amount = round1(sortedItems[0].amount - 0.1)
PayLessItems(items) ==
    LET first == sortedItems(items, "descending")[1]
    IN  [i \in DOMAIN items |->
            IF items[i].name = first.name
            THEN [items[i] EXCEPT !.amount = round1(NumSub(@, PointOne))]
            ELSE items[i]]

(***************************************************************************)
(* core.ts: splitBill as a function of its input (the statements above run *)
(* to the end), used to compare the results of two calls                   *)
(***************************************************************************)
\* core.ts 145-153: the first loop, to its end
RECURSIVE payMoreLoop(_, _, _)
payMoreLoop(totalAmount, items, payingTotal) ==
    IF ~NumLt(payingTotal, totalAmount)
    THEN [threw |-> FALSE, items |-> items, payingTotal |-> payingTotal]
    ELSE IF items = <<>>
    THEN [threw |-> TRUE, items |-> items, payingTotal |-> payingTotal]
    ELSE payMoreLoop(totalAmount, PayMoreItems(items),
                     round1(NumAdd(payingTotal, PointOne)))

\* core.ts 156-164: the second loop, to its end
RECURSIVE payLessLoop(_, _, _)
payLessLoop(totalAmount, items, payingTotal) ==
    IF ~NumLt(totalAmount, payingTotal)
    THEN [threw |-> FALSE, items |-> items, payingTotal |-> payingTotal]
    ELSE IF items = <<>>
    THEN [threw |-> TRUE, items |-> items, payingTotal |-> payingTotal]
    ELSE payLessLoop(totalAmount, PayLessItems(items),
                     round1(NumSub(payingTotal, PointOne)))

AfterPayMore(totalAmount, more) ==
    IF more.threw THEN more
    ELSE payLessLoop(totalAmount, more.items, more.payingTotal)

\* core.ts 140-164
adjustAmount(totalAmount, items) ==
    AfterPayMore(totalAmount,
                 payMoreLoop(totalAmount, FloorAmounts(items),
                             round1(SumAmounts(FloorAmounts(items)))))

SplitBillFrom(input, subTotal, tip) ==
    [subTotal    |-> subTotal,
     tip         |-> tip,
     totalAmount |-> TotalAmount(subTotal, tip),
     adjusted    |-> adjustAmount(TotalAmount(subTotal, tip),
                                  calculateItems(input.items, input.tipPercentage))]

\* core.ts 55-71
splitBill(input) ==
    SplitBillFrom(input, calculateSubTotal(input.items),
                  calculateTip(calculateSubTotal(input.items), input.tipPercentage))

(***************************************************************************)
(* processor.ts (and its later version): the parsed JSON document and the  *)
(* validator.  A JSON value carries its typeof.                            *)
(***************************************************************************)
MaxRawItems == 2

JUndef == [type |-> "undefined", num |-> 0, str |-> "", bool |-> FALSE]
JNum(n) == [type |-> "number", num |-> n, str |-> "", bool |-> FALSE]
JStr(t) == [type |-> "string", num |-> 0, str |-> t, bool |-> FALSE]
JBool(b) == [type |-> "boolean", num |-> 0, str |-> "", bool |-> b]

\* !v
Falsy(v) ==
    \/ v.type = "undefined"
    \/ v.type = "number" /\ v.num = 0
    \/ v.type = "string" /\ v.str = ""
    \/ v.type = "boolean" /\ ~v.bool

\* String.prototype.trim on the strings of the model
Trim(t) == IF t = " " THEN "" ELSE t

RawItems ==
    [name     : {JStr("tea")},
     price    : {JNum(-15), JNum(15), JNum(95)},
     isShared : {JBool(TRUE), JBool(FALSE)},
     person   : {JUndef, JStr(""), JStr(" "), JStr("a")}]

RawData ==
    [date          : {JUndef, JStr("2024-03-21")},
     location      : {JStr("cafe")},
     tipPercentage : {JNum(-5), JNum(10)},
     items         : [isArray : {TRUE}, elems : SeqsUpTo(RawItems, MaxRawItems)]
                         \cup {[isArray |-> FALSE, elems |-> <<>>]}]

NoData ==
    [date |-> JUndef, location |-> JUndef, tipPercentage |-> JUndef,
     items |-> [isArray |-> FALSE, elems |-> <<>>]]

\* the checks of the forEach callback on one item; strict is the later
\* version, which also refuses blank names and persons
ItemError(item, strict) ==
    IF Falsy(item.name) \/ item.name.type # "string"
       \/ (strict /\ Trim(item.name.str) = "")
    THEN "name"
    ELSE IF item.price.type # "number" \/ item.price.num < 0 THEN "price"
    ELSE IF item.isShared.type # "boolean" THEN "isShared"
    ELSE IF /\ Falsy(item.isShared)
            /\ \/ Falsy(item.person)
               \/ item.person.type # "string"
               \/ (strict /\ Trim(item.person.str) = "")
    THEN "person"
    ELSE "ok"

\* forEach throws at the first item that fails
RECURSIVE FirstItemError(_, _)
FirstItemError(elems, strict) ==
    IF elems = <<>> THEN "ok"
    ELSE IF ItemError(Head(elems), strict) # "ok" THEN ItemError(Head(elems), strict)
    ELSE FirstItemError(Tail(elems), strict)

FieldError(data) ==
    IF Falsy(data.date) \/ data.date.type # "string" THEN "date"
    ELSE IF Falsy(data.location) \/ data.location.type # "string" THEN "location"
    ELSE IF data.tipPercentage.type # "number" \/ data.tipPercentage.num < 0
    THEN "tipPercentage"
    ELSE IF ~data.items.isArray THEN "items"
    ELSE "ok"

\* processor.ts 136-182: "ok" or the field the thrown Error names
validateBillInput(data) ==
    IF FieldError(data) # "ok" THEN FieldError(data)
    ELSE FirstItemError(data.items.elems, FALSE)

\* later version of processor.ts, 422-474
validateBillInputStrict(data) ==
    IF FieldError(data) # "ok" THEN FieldError(data)
    ELSE IF Len(data.items.elems) = 0 THEN "empty items"
    ELSE FirstItemError(data.items.elems, TRUE)

Validate(version, data) ==
    IF version = "processor.ts" THEN validateBillInput(data)
    ELSE validateBillInputStrict(data)

\* return data as BillInput
AsBillInput(data) ==
    [tipPercentage |-> data.tipPercentage.num,
     items |-> [i \in DOMAIN data.items.elems |->
                   [price    |-> data.items.elems[i].price.num,
                    isShared |-> data.items.elems[i].isShared.bool,
                    person   |-> data.items.elems[i].person.str]]]

(***************************************************************************)
(* core.ts: formatDate.  A string is the sequence of its characters; the   *)
(* three CJK characters of the template are named by their code points.    *)
(***************************************************************************)
Nen == "U+5E74"
Gatsu == "U+6708"
Nichi == "U+65E5"

Digits == <<"0", "1", "2", "3", "4", "5", "6", "7", "8", "9">>

IsDigit(c) == \E d \in DOMAIN Digits : Digits[d] = c

DigitValue(c) == (CHOOSE d \in DOMAIN Digits : Digits[d] = c) - 1

\* the dates handed to formatDate: three fields of digits
DateYears == {<<"2", "0", "2", "4">>, <<"1", "9", "9", "9">>, <<"0", "9", "9", "9">>}
DateMonths == {<<"0", "0">>, <<"0", "1">>, <<"0", "3">>, <<"1", "0">>, <<"1", "2">>, <<"1", "3">>}
DateDays == {<<"0", "5">>, <<"0", "9">>, <<"2", "1">>, <<"3", "1">>, <<"3", "2">>}
Dates == {y \o <<"-">> \o m \o <<"-">> \o d : y \in DateYears, m \in DateMonths, d \in DateDays}

\* String.prototype.split("-"): cur is the piece being read
RECURSIVE SplitFrom(_, _)
SplitFrom(str, cur) ==
    IF str = <<>> THEN <<cur>>
    ELSE IF Head(str) = "-" THEN <<cur>> \o SplitFrom(Tail(str), <<>>)
    ELSE SplitFrom(Tail(str), Append(cur, Head(str)))

split(str) == SplitFrom(str, <<>>)

\* const [year, month, day] = ...: a missing element is undefined, which both
\* parseInt and the template literal convert to the string "undefined"
Undefined == <<"u", "n", "d", "e", "f", "i", "n", "e", "d">>
Element(parts, i) == IF i <= Len(parts) THEN parts[i] ELSE Undefined

RECURSIVE TrimStart(_)
TrimStart(str) ==
    IF str # <<>> /\ Head(str) = " " THEN TrimStart(Tail(str)) ELSE str

RECURSIVE DigitPrefix(_)
DigitPrefix(str) ==
    IF str # <<>> /\ IsDigit(Head(str))
    THEN <<Head(str)>> \o DigitPrefix(Tail(str))
    ELSE <<>>

RECURSIVE DigitsValue(_)
DigitsValue(str) ==
    IF str = <<>> THEN 0
    ELSE 10 * DigitsValue(SubSeq(str, 1, Len(str) - 1)) + DigitValue(str[Len(str)])

NaN == [nan |-> TRUE, val |-> 0]

Unsigned(str) ==
    IF str # <<>> /\ Head(str) \in {"+", "-"} THEN Tail(str) ELSE str

\* parseInt(string) without radix: white space, a sign, then the longest
\* prefix of decimal digits; NaN when there is none (no date of Dates has
\* the 0x prefix of a hexadecimal number)
parseInt(str) ==
    IF DigitPrefix(Unsigned(TrimStart(str))) = <<>> THEN NaN
    ELSE [nan |-> FALSE,
          val |-> (IF TrimStart(str)[1] = "-" THEN -1 ELSE 1)
                      * DigitsValue(DigitPrefix(Unsigned(TrimStart(str))))]

RECURSIVE NatToString(_)
NatToString(n) ==
    IF n < 10 THEN <<Digits[n + 1]>>
    ELSE NatToString(n \div 10) \o <<Digits[(n % 10) + 1]>>

\* the conversion of a number to a string in a template literal
NumberToString(num) ==
    IF num.nan THEN <<"N", "a", "N">>
    ELSE IF num.val < 0 THEN <<"-">> \o NatToString(-num.val)
    ELSE NatToString(num.val)

FormatParts(parts) ==
    Element(parts, 1) \o <<Nen>>
        \o NumberToString(parseInt(Element(parts, 2))) \o <<Gatsu>>
        \o NumberToString(parseInt(Element(parts, 3))) \o <<Nichi>>

formatDate_Unparsed(date) ==
    Element(split(date), 1) \o <<Nen>> \o Element(split(date), 2) \o <<Gatsu>>
        \o Element(split(date), 3) \o <<Nichi>>

\* core.ts 73-78
formatDate(date) == FormatParts(split(date))

(***************************************************************************)
(* processor.ts, later version: the input directory of processBatchFiles.  *)
(* A file name is its base and its extension.                              *)
(***************************************************************************)
MaxFiles == 2

FileNames ==
    {[base |-> "a", ext |-> ".json"], [base |-> "b", ext |-> ".JSON"],
     [base |-> "c", ext |-> ".json"], [base |-> "notes", ext |-> ".txt"]}

\* String.prototype.toLowerCase on the extensions of FileNames
toLowerCase(str) == IF str = ".JSON" THEN ".json" ELSE str

\* path.extname(file).toLowerCase() === '.json'
IsJsonFile(file) == toLowerCase(file.ext) = ".json"

\* path.basename(file, '.json') + '.json': the suffix is removed only when it
\* is spelled .json
outputFileName(file) ==
    IF file.ext = ".json" THEN <<file.base, ".json">>
    ELSE <<file.base, file.ext, ".json">>

BillOf(tipPercentage, elems) ==
    [date |-> JStr("2024-03-21"), location |-> JStr("cafe"),
     tipPercentage |-> JNum(tipPercentage),
     items |-> [isArray |-> TRUE, elems |-> elems]]

RawItem(price, isShared, person) ==
    [name |-> JStr("tea"), price |-> JNum(price), isShared |-> JBool(isShared),
     person |-> person]

\* what the files hold: a bill of one person, a bill of shared items only, a
\* bill with a negative tip percentage, a bill without items
FileContents ==
    {BillOf(10, <<RawItem(15, FALSE, JStr("a"))>>),
     BillOf(10, <<RawItem(95, TRUE, JUndef)>>),
     BillOf(-5, <<RawItem(15, FALSE, JStr("a"))>>),
     BillOf(10, <<>>)}

OtherContent == NoData

Directories ==
    UNION {[names -> FileContents \cup {OtherContent}] :
               names \in {n \in SUBSET FileNames : Cardinality(n) <= MaxFiles}}

\* what readAndValidateJsonFile and splitBill make of a file that was read
Computed(content) ==
    IF validateBillInputStrict(content) # "ok" THEN validateBillInputStrict(content)
    ELSE IF splitBill(AsBillInput(content)).adjusted.threw THEN "TypeError"
    ELSE "ok"

(***************************************************************************)
(* State: one call of splitBill, statement by statement, and the           *)
(* processSingleFile that makes the call                                   *)
(***************************************************************************)
VARIABLES
    input,        \* the BillInput handed to splitBill
    pc,           \* the statement splitBill is at ("idle" before the call)
    subTotal,     \* splitBill: let subTotal
    tip,          \* splitBill: let tip
    totalAmount,  \* splitBill: let totalAmount
    items,        \* splitBill: let items (the PersonItem list)
    payingTotal,  \* adjustAmount: let payingTotal
    iterations,   \* the loop iterations adjustAmount has executed
    version,      \* the caller: "core" (a direct call) or a processor version
    data,         \* the parsed content of the input file
    stage,        \* processSingleFile: "read", "split", "done" or "failed"
    error,        \* what the Error processSingleFile threw is about
    written,      \* the output file has been written
    exitCode,     \* the exit status of the process, -1 while it runs
    dateIn,       \* formatDate: the parameter date
    dateOut,      \* formatDate: the string returned
    dir,          \* processBatchFiles: the input directory, file name -> content
    jsonFiles,    \* processBatchFiles: const jsonFiles
    task,         \* the async function of each element of jsonFiles
    outputs,      \* the files of the output directory
    batch,        \* processBatchFiles: "off", "start", "running", "returned", "threw"
    batchError,   \* what the Error processBatchFiles threw is about
    successful,   \* processBatchFiles: const successful
    failed        \* processBatchFiles: const failed

coreVars == <<input, pc, subTotal, tip, totalAmount, items, payingTotal, iterations>>
cliVars == <<version, data, stage, error, written, exitCode>>
dateVars == <<dateIn, dateOut>>
batchVars == <<dir, jsonFiles, task, outputs, batch, batchError, successful, failed>>
otherVars == <<dateVars, batchVars>>
vars == <<coreVars, cliVars, otherVars>>

NoDate == dateIn = <<>> /\ dateOut = <<>>

NoBatch ==
    /\ dir = <<>>
    /\ jsonFiles = {}
    /\ task = <<>>
    /\ outputs = {}
    /\ batch = "off"
    /\ batchError = ""
    /\ successful = 0
    /\ failed = 0

NoInput == [tipPercentage |-> 0, items |-> <<>>]

InitLocals ==
    /\ subTotal = Zero
    /\ tip = Zero
    /\ totalAmount = Zero
    /\ items = <<>>
    /\ payingTotal = Zero
    /\ iterations = 0

\* splitBill called with a bill the validators accept
Init ==
    /\ input \in BillInputs
    /\ pc = "splitBill"
    /\ InitLocals
    /\ version = "core"
    /\ data = NoData
    /\ stage = "split"
    /\ error = ""
    /\ written = FALSE
    /\ exitCode = -1
    /\ NoDate
    /\ NoBatch

\* core.ts 58-60
Aggregate ==
    /\ pc = "splitBill"
    /\ LET st == calculateSubTotal(input.items)
           tp == calculateTip(st, input.tipPercentage)
       IN  /\ subTotal' = st
           /\ tip' = tp
           /\ totalAmount' = TotalAmount(st, tp)
    /\ pc' = "calculateItems"
    /\ UNCHANGED <<input, items, payingTotal, iterations, cliVars, otherVars>>

\* core.ts 61
CalculateItems ==
    /\ pc = "calculateItems"
    /\ items' = calculateItems(input.items, input.tipPercentage)
    /\ pc' = "adjustAmount"
    /\ UNCHANGED <<input, subTotal, tip, totalAmount, payingTotal, iterations, cliVars, otherVars>>

\* core.ts 141-142
AdjustAmount ==
    /\ pc = "adjustAmount"
    /\ items' = FloorAmounts(items)
    /\ payingTotal' = round1(SumAmounts(FloorAmounts(items)))
    /\ pc' = "payMore"
    /\ UNCHANGED <<input, subTotal, tip, totalAmount, iterations, cliVars, otherVars>>

\* the test of the first loop holds
NeedMore == pc = "payMore" /\ NumLt(payingTotal, totalAmount)

\* the first loop is over (or was never entered) and the test of the
\* second loop holds
NeedLess ==
    /\ pc \in {"payMore", "payLess"}
    /\ ~NeedMore
    /\ NumLt(totalAmount, payingTotal)

\* core.ts 145-153, one iteration
PayMore ==
    /\ NeedMore
    /\ items # <<>>
    /\ items' = PayMoreItems(items)
    /\ payingTotal' = round1(NumAdd(payingTotal, PointOne))
    /\ iterations' = iterations + 1
    /\ UNCHANGED <<input, pc, subTotal, tip, totalAmount, cliVars, otherVars>>

\* core.ts 156-164, one iteration
PayLess ==
    /\ NeedLess
    /\ items # <<>>
    /\ items' = PayLessItems(items)
    /\ payingTotal' = round1(NumSub(payingTotal, PointOne))
    /\ iterations' = iterations + 1
    /\ pc' = "payLess"
    /\ UNCHANGED <<input, subTotal, tip, totalAmount, cliVars, otherVars>>

\* core.ts 151 and 162: sortedItems[0] is undefined when nobody takes part,
\* and assigning to its amount throws a TypeError
Throw ==
    /\ NeedMore \/ NeedLess
    /\ items = <<>>
    /\ pc' = "threw"
    /\ UNCHANGED <<input, subTotal, tip, totalAmount, items, payingTotal, iterations, cliVars, otherVars>>

\* core.ts 63-70
Return ==
    /\ pc \in {"payMore", "payLess"}
    /\ ~NeedMore
    /\ ~NeedLess
    /\ pc' = "done"
    /\ UNCHANGED <<input, subTotal, tip, totalAmount, items, payingTotal, iterations, cliVars, otherVars>>

Next ==
    \/ Aggregate
    \/ CalculateItems
    \/ AdjustAmount
    \/ PayMore
    \/ PayLess
    \/ Throw
    \/ Return

Spec == Init /\ [][Next]_vars

Stopped == pc \in {"done", "threw"}

\* splitBill is synchronous: once called it runs until it returns or throws.
\* This is WF_vars(Next) written out as
\* []<>~ENABLED <<Next>>_vars \/ []<><<Next>>_vars: every statement before the
\* return or the throw has a step to take, so ~ENABLED <<Next>>_vars is
\* Stopped, and a step of Spec that changes vars is a step of Next.
SpecFair == Spec /\ ([]<>Stopped \/ []<><<TRUE>>_vars)

(***************************************************************************)
(* processSingleFile and main                                              *)
(***************************************************************************)
InitCli ==
    /\ input = NoInput
    /\ pc = "idle"
    /\ InitLocals
    /\ version \in {"processor.ts", "later processor.ts"}
    /\ data \in RawData
    /\ stage = "read"
    /\ error = ""
    /\ written = FALSE
    /\ exitCode = -1
    /\ NoDate
    /\ NoBatch

\* readAndValidateJsonFile: access, readFile or JSON.parse throws
ReadFails ==
    /\ stage = "read"
    /\ stage' = "failed"
    /\ error' = "read"
    /\ UNCHANGED <<otherVars, coreVars, version, data, written, exitCode>>

\* readAndValidateJsonFile: validateBillInput throws
ValidateRejects ==
    /\ stage = "read"
    /\ Validate(version, data) # "ok"
    /\ stage' = "failed"
    /\ error' = Validate(version, data)
    /\ UNCHANGED <<otherVars, coreVars, version, data, written, exitCode>>

\* readAndValidateJsonFile returns and processSingleFile calls splitBill
ValidateAccepts ==
    /\ stage = "read"
    /\ Validate(version, data) = "ok"
    /\ stage' = "split"
    /\ input' = AsBillInput(data)
    /\ pc' = "splitBill"
    /\ UNCHANGED <<otherVars, subTotal, tip, totalAmount, items, payingTotal, iterations,
                   version, data, error, written, exitCode>>

\* the catch of processSingleFile takes the TypeError of splitBill
SplitBillFails ==
    /\ stage = "split"
    /\ pc = "threw"
    /\ version # "core"
    /\ stage' = "failed"
    /\ error' = "TypeError"
    /\ UNCHANGED <<otherVars, coreVars, version, data, written, exitCode>>

WriteOutputFile_First ==
    /\ stage = "read"
    /\ written = FALSE
    /\ written' = TRUE
    /\ UNCHANGED <<otherVars, coreVars, version, data, stage, error, exitCode>>

\* writeOutputFile after splitBill returned
WriteOutputFile ==
    /\ stage = "split"
    /\ pc = "done"
    /\ version # "core"
    /\ written' = TRUE
    /\ stage' = "done"
    /\ UNCHANGED <<otherVars, coreVars, version, data, error, exitCode>>

\* writeOutputFile: mkdir or writeFile throws
WriteFails ==
    /\ stage = "split"
    /\ pc = "done"
    /\ version # "core"
    /\ stage' = "failed"
    /\ error' = "write"
    /\ UNCHANGED <<otherVars, coreVars, version, data, written, exitCode>>

\* main: process.exit(1) in its catch, status 0 when nothing was thrown
Exit ==
    /\ stage \in {"done", "failed"}
    /\ exitCode = -1
    /\ exitCode' = IF stage = "failed" THEN 1 ELSE 0
    /\ UNCHANGED <<otherVars, coreVars, version, data, stage, error, written>>

NextCli ==
    \/ ReadFails
    \/ ValidateRejects
    \/ ValidateAccepts
    \/ Next
    \/ SplitBillFails
    \/ WriteOutputFile
    \/ WriteFails
    \/ Exit

SpecCli == InitCli /\ [][NextCli]_vars

\* main awaits processSingleFile and nothing else runs in the process:
\* WF_vars(NextCli), written out as for SpecFair (NextCli has a step to take
\* until the process has its exit status)
SpecCliFair == SpecCli /\ ([]<>(exitCode # -1) \/ []<><<TRUE>>_vars)

(***************************************************************************)
(* formatDate called on its own                                            *)
(***************************************************************************)
InitDate ==
    /\ input = NoInput
    /\ pc = "formatDate"
    /\ InitLocals
    /\ version = "core"
    /\ data = NoData
    /\ stage = "split"
    /\ error = ""
    /\ written = FALSE
    /\ exitCode = -1
    /\ dateIn \in Dates
    /\ dateOut = <<>>
    /\ NoBatch

\* core.ts 73-78
FormatDate ==
    /\ pc = "formatDate"
    /\ dateOut' = formatDate(dateIn)
    /\ pc' = "formatted"
    /\ UNCHANGED <<input, subTotal, tip, totalAmount, items, payingTotal, iterations,
                   cliVars, dateIn, batchVars>>

NextDate == FormatDate

SpecDate == InitDate /\ [][NextDate]_vars

(***************************************************************************)
(* processBatchFiles (later version of processor.ts)                       *)
(***************************************************************************)
InitBatch ==
    /\ input = NoInput
    /\ pc = "idle"
    /\ InitLocals
    /\ version = "later processor.ts"
    /\ data = NoData
    /\ stage = "read"
    /\ error = ""
    /\ written = FALSE
    /\ exitCode = -1
    /\ NoDate
    /\ dir \in Directories
    /\ jsonFiles = {}
    /\ task = <<>>
    /\ outputs = {}
    /\ batch = "start"
    /\ batchError = ""
    /\ successful = 0
    /\ failed = 0

Rest == <<coreVars, cliVars, dateVars>>

\* access, stat, mkdir or readdir throws
SetupFails ==
    /\ batch = "start"
    /\ batch' = "threw"
    /\ batchError' = "setup"
    /\ UNCHANGED <<dir, jsonFiles, task, outputs, successful, failed, Rest>>

\* no file passes the filter: return
NoJsonFiles ==
    /\ batch = "start"
    /\ {file \in DOMAIN dir : IsJsonFile(file)} = {}
    /\ batch' = "returned"
    /\ UNCHANGED <<dir, jsonFiles, task, outputs, batchError, successful, failed, Rest>>

\* jsonFiles.map(async (file) => ...): every function runs up to the first
\* await of readAndValidateJsonFile
StartTasks ==
    /\ batch = "start"
    /\ {file \in DOMAIN dir : IsJsonFile(file)} # {}
    /\ jsonFiles' = {file \in DOMAIN dir : IsJsonFile(file)}
    /\ task' = [file \in {f \in DOMAIN dir : IsJsonFile(f)} |->
                   [state |-> "read", success |-> FALSE, error |-> ""]]
    /\ batch' = "running"
    /\ UNCHANGED <<dir, outputs, batchError, successful, failed, Rest>>

Settled(ok, message) == [state |-> "settled", success |-> ok, error |-> message]

\* the file is read: validateBillInput and splitBill run, then either the
\* catch returns {success: false} or writeOutputFile is called
TaskRead ==
    \E file \in jsonFiles :
        /\ batch = "running"
        /\ task[file].state = "read"
        /\ task' = [task EXCEPT ![file] =
                       IF Computed(dir[file]) = "ok"
                       THEN [state |-> "write", success |-> FALSE, error |-> ""]
                       ELSE Settled(FALSE, Computed(dir[file]))]
        /\ UNCHANGED <<dir, jsonFiles, outputs, batch, batchError, successful, failed, Rest>>

\* access or readFile throws, or the content is no JSON
TaskReadFails ==
    \E file \in jsonFiles :
        /\ batch = "running"
        /\ task[file].state = "read"
        /\ task' = [task EXCEPT ![file] = Settled(FALSE, "read")]
        /\ UNCHANGED <<dir, jsonFiles, outputs, batch, batchError, successful, failed, Rest>>

\* writeOutputFile returns and the function returns {success: true}
TaskWrite ==
    \E file \in jsonFiles :
        /\ batch = "running"
        /\ task[file].state = "write"
        /\ outputs' = outputs \cup {outputFileName(file)}
        /\ task' = [task EXCEPT ![file] = Settled(TRUE, "")]
        /\ UNCHANGED <<dir, jsonFiles, batch, batchError, successful, failed, Rest>>

\* mkdir or writeFile throws
TaskWriteFails ==
    \E file \in jsonFiles :
        /\ batch = "running"
        /\ task[file].state = "write"
        /\ task' = [task EXCEPT ![file] = Settled(FALSE, "write")]
        /\ UNCHANGED <<dir, jsonFiles, outputs, batch, batchError, successful, failed, Rest>>

Settle_FirstFailure ==
    /\ batch = "running"
    /\ \E file \in jsonFiles : task[file].state = "settled" /\ ~task[file].success
    /\ successful' = Cardinality({file \in jsonFiles : task[file].success})
    /\ failed' = Cardinality({file \in jsonFiles :
                                 task[file].state = "settled" /\ ~task[file].success})
    /\ batch' = "threw"
    /\ batchError' = "failed files"
    /\ UNCHANGED <<dir, jsonFiles, task, outputs, Rest>>

\* Promise.allSettled resolves; the summary, and the throw when failed > 0
Settle ==
    /\ batch = "running"
    /\ \A file \in jsonFiles : task[file].state = "settled"
    /\ successful' = Cardinality({file \in jsonFiles : task[file].success})
    /\ failed' = Cardinality({file \in jsonFiles : ~task[file].success})
    /\ batch' = IF Cardinality({file \in jsonFiles : ~task[file].success}) > 0
                THEN "threw" ELSE "returned"
    /\ batchError' = IF Cardinality({file \in jsonFiles : ~task[file].success}) > 0
                     THEN "failed files" ELSE ""
    /\ UNCHANGED <<dir, jsonFiles, task, outputs, Rest>>

NextBatch ==
    \/ SetupFails
    \/ NoJsonFiles
    \/ StartTasks
    \/ TaskRead
    \/ TaskReadFails
    \/ TaskWrite
    \/ TaskWriteFails
    \/ Settle

SpecBatch == InitBatch /\ [][NextBatch]_vars

\* every pending file operation completes and the event loop runs each
\* continuation: WF_vars(NextBatch), written out as for SpecFair
SpecBatchFair ==
    SpecBatch /\ ([]<>(batch \in {"returned", "threw"}) \/ []<><<TRUE>>_vars)

(***************************************************************************)
(* Properties                                                              *)
(***************************************************************************)
Personal(k, name) == ~input.items[k].isShared /\ input.items[k].person = name

HasParticipant == \E k \in DOMAIN input.items : ~input.items[k].isShared

\* C1: when splitBill returns for a bill with at least one participant, the
\* sum of the amounts of the output items, rounded to 0.1, equals the returned
\* totalAmount exactly.
C1_Reconciled ==
    (pc = "done" /\ HasParticipant) => round1(SumAmounts(items)) = totalAmount

\* splitBill returned for two participants after the reconciler moved amounts
C1_Witness == pc = "done" /\ Len(items) = 2 /\ iterations > 0

\* C3: with non-negative prices and tip percentage every amount is >= 0,
\* after the per-person rounding and after every step of the reconciler.
C3_NonNegative == \A i \in DOMAIN items : ~NumLt(items[i].amount, Zero)

\* the second loop lowered an amount while another participant stood at zero
C3_Witness ==
    /\ pc = "payLess"
    /\ iterations > 0
    /\ \E i \in DOMAIN items : items[i].amount = Zero

Before(i, j) == NameRank(items[i].name) <= NameRank(items[j].name)

\* i has the smallest amount, and among those with that amount the first name
Smallest(i) ==
    \A j \in DOMAIN items :
        \/ NumLt(items[i].amount, items[j].amount)
        \/ items[i].amount = items[j].amount /\ Before(i, j)

\* i has the largest amount, and among those with that amount the first name
Largest(i) ==
    \A j \in DOMAIN items :
        \/ NumLt(items[j].amount, items[i].amount)
        \/ items[i].amount = items[j].amount /\ Before(i, j)

\* C4: every iteration of the reconciler changes the amount of exactly one
\* participant, the one who at that moment has the smallest amount (first
\* loop) or the largest amount (second loop), the first by name among those
\* tied at that amount.
C4_CurrentExtreme ==
    [][iterations' = iterations + 1 =>
          \E i \in DOMAIN items :
              /\ DOMAIN items' = DOMAIN items
              /\ items'[i].amount # items[i].amount
              /\ \A j \in DOMAIN items : j # i => items'[j] = items[j]
              /\ IF NumLt(payingTotal, payingTotal') THEN Smallest(i) ELSE Largest(i)]_vars

\* one increment was made from a tie, and it went to "a" although "b" is
\* first in the list
C4_Witness ==
    /\ pc = "payMore"
    /\ iterations = 1
    /\ Len(items) = 2
    /\ items[1].name = "b"
    /\ items[2].name = "a"
    /\ items[2].amount = round1(NumAdd(items[1].amount, PointOne))

\* C5: for the same items and tip percentages t1 <= t2 the totalAmount for t1
\* is at most the totalAmount for t2.
C5_TipMonotone ==
    pc = "calculateItems" =>
        \A t \in Tips :
            t >= input.tipPercentage =>
                ~NumLt(TotalAmount(subTotal, calculateTip(subTotal, t)), totalAmount)

\* a bill whose tip of 20 percent raised the total above the subtotal, which
\* is what it pays without tip
C5_Witness ==
    /\ pc = "calculateItems"
    /\ input.tipPercentage = 20
    /\ NumLt(subTotal, totalAmount)

\* C2: a bill without personal items never makes splitBill fail: no loop of
\* the reconciler is entered and splitBill returns an empty items list.
C2_NoParticipantsNoFailure ==
    (pc # "idle" /\ ~HasParticipant) =>
        /\ pc # "threw"
        /\ iterations = 0
        /\ (pc = "done" => items = <<>>)

Permute(list, p) == [i \in DOMAIN list |-> list[p[i]]]

AmountsByName(list) == {<<list[i].name, list[i].amount>> : i \in DOMAIN list}

SameResult(r) ==
    /\ ~r.adjusted.threw
    /\ r.subTotal = subTotal
    /\ r.tip = tip
    /\ r.totalAmount = totalAmount
    /\ AmountsByName(r.adjusted.items) = AmountsByName(items)

\* C6: for every permutation of the items splitBill returns the same
\* subTotal, tip and totalAmount and the same final amount for each name.
C6_OrderIndependent ==
    pc = "done" =>
        \A p \in Permutations(DOMAIN input.items) :
            SameResult(splitBill([input EXCEPT !.items = Permute(input.items, p)]))

FirstIndex(name) ==
    CHOOSE k \in DOMAIN input.items :
        Personal(k, name) /\ \A j \in 1..(k - 1) : ~Personal(j, name)

\* C7: the output items hold exactly one entry per person of a personal item,
\* in the order in which the persons first appear in the input items; the
\* reconciler changes neither the order nor the membership.
C7_FirstAppearanceOrder ==
    pc \in {"adjustAmount", "payMore", "payLess", "done"} =>
        /\ {items[i].name : i \in DOMAIN items}
               = {input.items[k].person : k \in {j \in DOMAIN input.items :
                                                    ~input.items[j].isShared}}
        /\ \A i, j \in DOMAIN items :
               i < j => FirstIndex(items[i].name) < FirstIndex(items[j].name)

\* the reconciler ran on a list that starts with "b", which both of its
\* sorts would have put behind "a"
C7_Witness ==
    /\ pc = "done"
    /\ iterations > 0
    /\ Len(items) = 2
    /\ items[1].name = "b"
    /\ NumLt(items[2].amount, items[1].amount)

\* what the claim calls invalid: no items, a negative price, a personal item
\* without person, a negative tip percentage
ClaimInvalid(d) ==
    \/ d.items.isArray /\ d.items.elems = <<>>
    \/ \E k \in DOMAIN d.items.elems :
           d.items.elems[k].price.type = "number" /\ d.items.elems[k].price.num < 0
    \/ \E k \in DOMAIN d.items.elems :
           /\ d.items.elems[k].isShared = JBool(FALSE)
           /\ d.items.elems[k].person \in {JUndef, JStr("")}
    \/ d.tipPercentage.type = "number" /\ d.tipPercentage.num < 0

\* C8: splitBill is invoked only with a bill the validator accepted, and the
\* validator of each version raises an error for a bill with no items, with a
\* negative price, with a personal item without person, or with a negative
\* tip percentage.
C8_ValidatorGuards ==
    /\ pc # "idle" => Validate(version, data) = "ok"
    /\ (stage # "read" /\ ClaimInvalid(data)) =>
           stage = "failed" /\ pc = "idle"

\* the decimal arithmetic of the claims: prices in hundredths, results in
\* tenths, halves rounded up
RoundHalfUp(num, den) == (2 * num + den) \div (2 * den)

\* the hundredths of the first k items that are shared (who = "") or are the
\* personal items of who; "*" counts every item
RECURSIVE SumCents(_, _, _)
SumCents(list, k, who) ==
    IF k = 0 THEN 0
    ELSE SumCents(list, k - 1, who)
             + (IF \/ who = "*"
                   \/ who = "" /\ list[k].isShared
                   \/ who # "" /\ ~list[k].isShared /\ list[k].person = who
                THEN list[k].price ELSE 0)

\* C9: subTotal is the sum of the prices, tip is subTotal * tipPercentage / 100
\* rounded to the nearest 0.1 with halves up, and totalAmount is subTotal + tip
\* rounded the same way.
C9_Totals ==
    pc # "splitBill" /\ pc # "idle" =>
        /\ subTotal = NumLit(SumCents(input.items, Len(input.items), "*"), 100)
        /\ tip = NumLit(RoundHalfUp(SumCents(input.items, Len(input.items), "*")
                                        * input.tipPercentage, 1000), 10)
        /\ totalAmount =
               NumLit(RoundHalfUp(SumCents(input.items, Len(input.items), "*")
                                      + 10 * RoundHalfUp(SumCents(input.items, Len(input.items), "*")
                                                             * input.tipPercentage, 1000),
                                  10), 10)

NumPersons == Cardinality({input.items[k].person : k \in {j \in DOMAIN input.items :
                                                            ~input.items[j].isShared}})

\* C10: before reconciliation the amount of a person is (personal items +
\* shared items / n) * (1 + tipPercentage / 100) rounded to the nearest 0.1,
\* n being the number of persons of the whole bill.
C10_PreReconciliation ==
    pc = "adjustAmount" =>
        \A i \in DOMAIN items :
            items[i].amount =
                NumLit(RoundHalfUp((SumCents(input.items, Len(input.items), items[i].name)
                                        * NumPersons
                                      + SumCents(input.items, Len(input.items), ""))
                                       * (100 + input.tipPercentage),
                                   1000 * NumPersons), 10)

\* a field of digits without its leading zeros
RECURSIVE StripZeros(_)
StripZeros(field) ==
    IF Len(field) > 1 /\ Head(field) = "0" THEN StripZeros(Tail(field)) ELSE field

\* C11: for a date YYYY-MM-DD formatDate returns the year field unchanged and
\* U+5E74, the month without leading zeros and U+6708, the day without leading
\* zeros and U+65E5; month 13 and day 32 pass through and nothing is thrown.
C11_FormatDate ==
    pc = "formatted" =>
        dateOut = SubSeq(dateIn, 1, 4) \o <<Nen>>
                      \o StripZeros(SubSeq(dateIn, 6, 7)) \o <<Gatsu>>
                      \o StripZeros(SubSeq(dateIn, 9, 10)) \o <<Nichi>>

\* 2024-01-05 gives 2024 U+5E74 1 U+6708 5 U+65E5
C11_Witness ==
    /\ pc = "formatted"
    /\ dateIn = <<"2", "0", "2", "4", "-", "0", "1", "-", "0", "5">>
    /\ dateOut = <<"2", "0", "2", "4", Nen, "1", Gatsu, "5", Nichi>>

\* a number in tenths, and whether it is a multiple of 0.1
Tenths(num) == MathRound(NumMul(num, Ten))

IsTenth(num) == num = NumLit(Tenths(num), 10)

Abs(n) == IF n < 0 THEN -n ELSE n

\* payingTotal as adjustAmount first computes it
InitialPayingTotal ==
    round1(SumAmounts(FloorAmounts(calculateItems(input.items, input.tipPercentage))))

\* C12: with at least one participant the reconciler terminates: payingTotal,
\* totalAmount and every amount are multiples of 0.1 throughout, each
\* iteration moves payingTotal by exactly 0.1 toward totalAmount, and the
\* number of iterations is |initial payingTotal - totalAmount| / 0.1, after
\* which payingTotal equals totalAmount.  (input never changes, so the
\* unprimed HasParticipant and InitialPayingTotal speak of the new state too.)
C12_Terminates ==
    /\ [][/\ (pc' \in {"payMore", "payLess", "done"} /\ HasParticipant) =>
                 /\ IsTenth(payingTotal')
                 /\ IsTenth(totalAmount')
                 /\ \A i \in DOMAIN items' : IsTenth(items'[i].amount)
          /\ iterations' = iterations + 1 =>
                 Tenths(payingTotal') - Tenths(payingTotal)
                     = (IF NumLt(payingTotal, totalAmount) THEN 1 ELSE -1)
          /\ (pc' = "done" /\ HasParticipant) =>
                 /\ payingTotal' = totalAmount'
                 /\ iterations' = Abs(Tenths(InitialPayingTotal) - Tenths(totalAmount'))]_vars
    /\ ((pc = "splitBill" /\ HasParticipant) ~> (pc = "done"))

\* the reconciler returned after two iterations
C12_Witness ==
    /\ pc = "done"
    /\ HasParticipant
    /\ iterations = 2
    /\ payingTotal = totalAmount

\* a number in hundredths
Hundredths(num) == MathRound(NumMul(num, NumLit(100, 1)))

\* splitBill has computed subTotal, tip and totalAmount
Aggregated == pc \in {"calculateItems", "adjustAmount", "payMore", "payLess", "done", "threw"}

\* C13: the rounding in totalAmount only removes floating-point residue:
\* totalAmount equals the exact sum subTotal + tip, also for prices that are
\* not multiples of 0.1.
C13_ExactSum ==
    Aggregated => 10 * Tenths(totalAmount) = Hundredths(subTotal) + 10 * Tenths(tip)

\* C13, amended: totalAmount is the multiple of 0.1 nearest to subTotal + tip;
\* it is at most 0.05 away from the sum and equals it whenever subTotal is a
\* multiple of 0.1.
C13_RoundedSum ==
    Aggregated =>
        /\ IsTenth(totalAmount)
        /\ Abs(10 * Tenths(totalAmount) - (Hundredths(subTotal) + 10 * Tenths(tip))) <= 5
        /\ Hundredths(subTotal) % 10 = 0 =>
               10 * Tenths(totalAmount) = Hundredths(subTotal) + 10 * Tenths(tip)

\* the rounding moved the total by a full 0.05
C13_Witness ==
    /\ Aggregated
    /\ Hundredths(subTotal) % 10 = 5
    /\ 10 * Tenths(totalAmount) - (Hundredths(subTotal) + 10 * Tenths(tip)) = 5

\* C14: the floor of step 1 changes no amount, calculateItems having rounded
\* each to the nearest 0.1 already; payingTotal before the loops is the
\* rounded sum of those shares, and may lie below or above totalAmount.
C14_FloorChangesNothing ==
    /\ pc = "adjustAmount" => FloorAmounts(items) = items
    /\ (pc \in {"payMore", "payLess", "done"} /\ iterations = 0) =>
           /\ items = calculateItems(input.items, input.tipPercentage)
           /\ payingTotal = round1(SumAmounts(calculateItems(input.items, input.tipPercentage)))

\* after the floor the rounded shares add up to more than totalAmount: the
\* second loop is about to run (the first has run in the state of C4_Witness)
C14_Witness ==
    /\ pc = "payMore"
    /\ iterations = 0
    /\ HasParticipant
    /\ items = calculateItems(input.items, input.tipPercentage)
    /\ NumLt(totalAmount, payingTotal)

\* C15: processSingleFile reads and validates, then calls splitBill, then
\* writes: the output is written only after the validator accepted the bill
\* and splitBill returned; when reading, parsing, validation or splitBill
\* fails nothing is written, the error carries a message and main ends the
\* process with exit status 1.
C15_ReadSplitWrite ==
    /\ [][/\ (pc = "idle" /\ pc' # "idle") =>
                 stage = "read" /\ Validate(version, data) = "ok"
          /\ (~written /\ written') =>
                 stage = "split" /\ pc = "done" /\ Validate(version, data) = "ok"
          /\ (stage' = "failed" /\ error' # "write") =>
                 ~written' /\ error' # ""
          /\ (exitCode = -1 /\ exitCode' # -1) =>
                 (exitCode' = 1 <=> stage = "failed")
          /\ exitCode # -1 => UNCHANGED <<stage, written, pc>>]_vars
    /\ ((stage = "failed") ~> (exitCode = 1 /\ stage = "failed"))

\* splitBill threw, nothing was written and the process ended with status 1
C15_Witness ==
    /\ exitCode = 1
    /\ error = "TypeError"
    /\ pc = "threw"
    /\ ~written

\* the .json files of the input directory, whatever the case of the extension
JsonFilesInDir == {file \in DOMAIN dir : file.ext \in {".json", ".JSON"}}

\* processBatchFiles returned or threw after the files were listed
BatchOver == batch \in {"returned", "threw"} /\ batchError # "setup"

\* the file failed for a reason of its own
OwnFailure(file) ==
    \/ Computed(dir[file]) # "ok"
    \/ task[file].error \in {"read", "write"}

\* C16: in batch mode every .json file of the directory is processed, under
\* every interleaving and whatever happens to the other files: when the batch
\* is over each file has settled and each file that did not fail by itself is
\* written; the batch throws if and only if a file failed; successful and
\* failed add up to the number of .json files; without .json files the batch
\* returns having processed nothing.
C16_BatchIndependent ==
    /\ [](BatchOver =>
              /\ \A file \in JsonFilesInDir :
                     /\ file \in DOMAIN task
                     /\ task[file].state = "settled"
                     /\ task[file].success <=> ~OwnFailure(file)
                     /\ task[file].success => outputFileName(file) \in outputs
              /\ batch = "threw" <=> \E file \in JsonFilesInDir : ~task[file].success
              /\ successful + failed = Cardinality(JsonFilesInDir)
              /\ JsonFilesInDir = {} => batch = "returned" /\ outputs = {} /\ task = <<>>)
    /\ ((batch = "running") ~> (batch \in {"returned", "threw"}))

\* one file failed and the other one was written all the same
C16_Witness ==
    /\ batch = "threw"
    /\ batchError = "failed files"
    /\ successful = 1
    /\ failed = 1
    /\ \E file \in jsonFiles : ~task[file].success /\ task[file].error = "read"
    /\ \E file \in jsonFiles : task[file].success /\ outputFileName(file) \in outputs

====
